---------------------------- MODULE Spec2Model ----------------------------
(***************************************************************************)
(* Material receiving inspections: the local record store                  *)
(* (cargo_inspections, pending_sync), the form that creates and edits      *)
(* records, the list screen that filters and deletes them, the dashboard   *)
(* that counts them and the export screen that writes reports, dispatches  *)
(* them and marks records as exported.                                     *)
(*                                                                         *)
(* Text is a sequence of one-character strings, so that trim() and         *)
(* parseFloat() are computed.  Times are clock readings (Date.now()).      *)
(* AsyncStorage reads and writes are taken to succeed; FileSystem writes   *)
(* and the share / mail / link calls may throw.                            *)
(***************************************************************************)
EXTENDS Integers, Sequences, FiniteSets, TLC

\* ------------------------------------------------------------------ bounds
MaxTime == 2
MaxRecords == 2
MaxDialogs == 2
MaxStats == 6

\* ------------------------------------------------------------------ text
SP == " "

Digits == {"7"}

\* String.prototype.trim(): leading and trailing white space removed.
RECURSIVE TrimLeft(_)
TrimLeft(s) ==
    IF s = <<>> THEN <<>>
    ELSE IF Head(s) = SP THEN TrimLeft(Tail(s)) ELSE s

RECURSIVE TrimRight(_)
TrimRight(s) ==
    IF s = <<>> THEN <<>>
    ELSE IF s[Len(s)] = SP THEN TrimRight(SubSeq(s, 1, Len(s) - 1)) ELSE s

Trim(s) == TrimRight(TrimLeft(s))

\* parseFloat(): skips leading white space and reads the longest numeric
\* prefix; NaN when there is none.  isNaN(parseFloat(s)).
ParseFloatIsNaN(s) ==
    LET t == TrimLeft(s) IN
    IF t = <<>> THEN TRUE ELSE Head(t) \notin Digits

\* A string that is a number from its first to its last character.
RECURSIVE AllDigits(_)
AllDigits(s) ==
    IF s = <<>> THEN TRUE ELSE Head(s) \in Digits /\ AllDigits(Tail(s))

IsNumeric(s) == Trim(s) # <<>> /\ AllDigits(Trim(s))

\* ------------------------------------------------------------------ form
NoType == ""
PhysicalDamage == "nonConformance.physicalDamage"

NoPayload == "null"
Payload == "b64"

\* photos of a form: none, or one photo whose capture gave no payload
\* followed by two photos with a payload.
PhotoLists == { <<>>, <<NoPayload, Payload, Payload>> }

InvoiceInputs == { <<>>, <<SP>>, <<"A">>, <<"B">> }
MaterialInputs == { <<>>, <<"M">> }
InspectorInputs == { <<SP>>, <<"Q">> }
QuantityInputs == { <<>>, <<SP>>, <<"x">>, <<"7", "x">>, <<"7">> }

\* the values a submitted form may hold
FormInputs ==
    { [invoiceNumber |-> inv, materialType |-> mat, qualityInspector |-> insp,
       nonConforming |-> nc, nonConformanceType |-> ty,
       nonConformingQuantity |-> qty, photos |-> ph] :
         inv \in InvoiceInputs, mat \in MaterialInputs,
         insp \in InspectorInputs, nc \in BOOLEAN,
         ty \in {NoType, PhysicalDamage}, qty \in QuantityInputs,
         ph \in PhotoLists }

\* the form of a screen that has just been mounted
EmptyForm ==
    [invoiceNumber |-> <<>>, materialType |-> <<>>, qualityInspector |-> <<>>,
     nonConforming |-> FALSE, nonConformanceType |-> NoType,
     nonConformingQuantity |-> <<>>, photos |-> <<>>]

\* a conforming delivery with photos, and a non-conforming one without
FormA ==
    [invoiceNumber |-> <<"A">>, materialType |-> <<"M">>,
     qualityInspector |-> <<"Q">>, nonConforming |-> FALSE,
     nonConformanceType |-> NoType, nonConformingQuantity |-> <<>>,
     photos |-> <<NoPayload, Payload, Payload>>]

FormB ==
    [invoiceNumber |-> <<"B">>, materialType |-> <<"M">>,
     qualityInspector |-> <<"Q">>, nonConforming |-> TRUE,
     nonConformanceType |-> PhysicalDamage, nonConformingQuantity |-> <<"7">>,
     photos |-> <<>>]

\* the forms handleSave is given: the two above and one that fails
\* validation (every form is validated under SpecValidate)
SubmittedForms ==
    {FormA, FormB, [FormA EXCEPT !.qualityInspector = <<SP>>]}

VARIABLES
    now,              \* the clock: Date.now() / new Date()
    store,            \* AsyncStorage 'cargo_inspections'
    pending,          \* AsyncStorage 'pending_sync'
    lastInspector,    \* AsyncStorage 'last_quality_inspector'
    screen,           \* the focused screen: "list", "form" or "export"
    isEdit,           \* add-cargo: !!params.editId
    editId,           \* add-cargo: params.editId
    formData,         \* add-cargo: the form as last submitted
    errors,           \* add-cargo: the field errors validateForm has set
    cargos,           \* cargo-list: the in-memory copy of the records
    listLoading,      \* cargo-list: a loadCargos() has not finished yet
    dialogs,          \* cargo-list: open delete confirmations (closures)
    filteredCargos,   \* cargo-list: the records the list shows
    searchQuery,      \* cargo-list: the text of the search bar
    selectedFilter,   \* cargo-list: the category picked in the filter menu
    loadArgs,         \* cargo-list: the query and filter loadCargos closes over
    stats,            \* dashboard: the statistics shown
    alert,            \* the Alert.alert shown by the last step, if any
    cargoId,          \* export-all: params.cargoId, <<>> when absent
    exportType,       \* export-all: 'all', 'selected' or 'single'
    exportFormat,     \* export-all: 'organized' or 'simple'
    includePhotos,    \* export-all: the include-photos check box
    selectedCargos,   \* export-all: the selected record ids
    allCargos,        \* export-all: the records loaded when the screen opened
    loading,          \* export-all: disables the export buttons
    progress,         \* export-all: the progress bar, in thousandths
    runs,             \* export-all: the export handlers in flight, by sink
    ended             \* the export run that finished in the last step

recordVars == <<store, pending, lastInspector>>
formVars == <<isEdit, editId, formData, errors>>
shownVars == <<filteredCargos, searchQuery, selectedFilter>>
listVars == <<cargos, listLoading, dialogs, shownVars, loadArgs>>
exportVars == <<cargoId, exportType, exportFormat, includePhotos,
                selectedCargos, allCargos, loading, progress, runs>>

vars == <<now, store, pending, lastInspector, screen, isEdit, editId,
          formData, errors, cargos, listLoading, dialogs, filteredCargos,
          searchQuery, selectedFilter, loadArgs, stats, alert, cargoId,
          exportType,
          exportFormat, includePhotos, selectedCargos, allCargos, loading,
          progress, runs, ended>>

\* ------------------------------------------------------------------ helpers
NoDate == <<>>

\* the query and the filter of the first render of the list screen, which
\* the focus effect's loadCargos keeps (useCallback with no dependencies)
FirstRender == [query |-> <<>>, filter |-> "all"]

\* no export run finished in the last step
NoRun == [sink |-> "none"]

Ids(recs) == { recs[k].id : k \in DOMAIN recs }

\* Array.prototype.findIndex; 0 stands for -1
FindIndex(recs, id) ==
    IF \E k \in DOMAIN recs : recs[k].id = id
    THEN CHOOSE k \in DOMAIN recs :
            /\ recs[k].id = id
            /\ \A m \in DOMAIN recs : recs[m].id = id => k <= m
    ELSE 0

\* Array.prototype.filter
Filter(s, Keep(_)) == SelectSeq(s, Keep)

\* Array.prototype.slice(0, n)
Slice(seq, n) == SubSeq(seq, 1, IF Len(seq) < n THEN Len(seq) ELSE n)

\* ------------------------------------------------------------------ add-cargo
\* validateForm: the keys of newErrors
ValidationErrors(f) ==
    (IF Trim(f.invoiceNumber) = <<>> THEN {"invoiceNumber"} ELSE {})
    \cup (IF Trim(f.materialType) = <<>> THEN {"materialType"} ELSE {})
    \cup (IF Trim(f.qualityInspector) = <<>> THEN {"qualityInspector"} ELSE {})
    \cup (IF f.nonConforming /\ f.nonConformanceType = NoType
          THEN {"nonConformanceType"} ELSE {})
    \cup (IF f.nonConforming
             /\ (Trim(f.nonConformingQuantity) = <<>>
                 \/ ParseFloatIsNaN(f.nonConformingQuantity))
          THEN {"nonConformingQuantity"} ELSE {})

\* (mutant) the quality inspector is not required
validateForm_NoInspector(f) == ValidationErrors(f) \ {"qualityInspector"} = {}

validateForm(f) == ValidationErrors(f) = {}

\* (mutant) the stored date is not looked up
getExistingInspectionDate_Now(recs, id) == now

\* getExistingInspectionDate
getExistingInspectionDate(recs, id) ==
    IF FindIndex(recs, id) # 0 THEN recs[FindIndex(recs, id)].inspectionDate
    ELSE now

\* the cargoData object of handleSave before the collection is read
CargoData(f, edit, id) ==
    [id |-> IF edit THEN id ELSE now,
     invoiceNumber |-> f.invoiceNumber,
     materialType |-> f.materialType,
     qualityInspector |-> f.qualityInspector,
     nonConforming |-> f.nonConforming,
     nonConformanceType |-> f.nonConformanceType,
     nonConformingQuantity |-> f.nonConformingQuantity,
     photos |-> f.photos,
     inspectionDate |-> IF edit THEN getExistingInspectionDate(store, id) ELSE now,
     lastModified |-> now,
     exported |-> FALSE,
     exportDate |-> NoDate]

\* the collection handleSave writes back
SavedCargos(recs, f, edit, id) ==
    LET data == CargoData(f, edit, id)
        index == FindIndex(recs, id)
    IN  IF edit
        THEN IF index # 0
             THEN [recs EXCEPT ![index] = [data EXCEPT !.exported = recs[index].exported]]
             ELSE recs
        ELSE Append(recs, data)

\* (mutant) the entry of the same id is not removed first
addToPendingSync_NoFilter(pend, data, edit) ==
    Append(pend,
           [id |-> data.id,
            invoiceNumber |-> data.invoiceNumber,
            syncAction |-> IF edit THEN "update" ELSE "create",
            syncTimestamp |-> now])

\* addToPendingSync
addToPendingSync(pend, data, edit) ==
    Append(Filter(pend, LAMBDA item : item.id # data.id),
           [id |-> data.id,
            invoiceNumber |-> data.invoiceNumber,
            syncAction |-> IF edit THEN "update" ELSE "create",
            syncTimestamp |-> now])

\* handleSave: validation, then the read-modify-write of the collection,
\* the pending-sync upsert, the success alert and (OK) router.back(),
\* which unmounts the form.
handleSave(f) ==
    /\ screen = "form"
    /\ errors' = ValidationErrors(f)
    /\ IF ~validateForm(f)
       THEN /\ alert' = "validationError"
            /\ formData' = f
            /\ UNCHANGED <<now, stats, recordVars, screen, isEdit, editId, listVars>>
       ELSE /\ isEdit \/ Len(store) < MaxRecords
            /\ lastInspector' = Trim(f.qualityInspector)
            /\ store' = SavedCargos(store, f, isEdit, editId)
            /\ pending' = addToPendingSync(pending, CargoData(f, isEdit, editId), isEdit)
            /\ alert' = IF isEdit THEN "inspectionUpdated" ELSE "inspectionSaved"
            /\ screen' = "list"
            /\ listLoading' = TRUE
            /\ isEdit' = FALSE
            /\ editId' = 0
            /\ formData' = EmptyForm
            /\ loadArgs' = FirstRender
            /\ UNCHANGED <<now, stats, cargos, dialogs, shownVars>>

\* the save button, whatever the form holds
Save ==
    /\ \E f \in SubmittedForms : handleSave(f)
    /\ ended' = NoRun
    /\ UNCHANGED exportVars

\* the save button on the form as it stands
SaveTyped ==
    /\ handleSave(formData)
    /\ ended' = NoRun
    /\ UNCHANGED exportVars

\* the back arrow of the form; the form is unmounted
FormBack ==
    /\ screen = "form"
    /\ screen' = "list"
    /\ listLoading' = TRUE
    /\ isEdit' = FALSE
    /\ editId' = 0
    /\ formData' = EmptyForm
    /\ errors' = {}
    /\ ended' = NoRun
    /\ alert' = "none"
    /\ loadArgs' = FirstRender
    /\ UNCHANGED <<now, stats, recordVars, cargos, dialogs, shownVars, exportVars>>

\* ------------------------------------------------------------------ cargo-list
\* seven days, in the unit of the clock: weekAgo.setDate(getDate() - 7)
Week == 7

\* String.prototype.toLowerCase(), one character
ToLower(ch) ==
    CASE ch = "A" -> "a"
      [] ch = "B" -> "b"
      [] OTHER -> ch

\* (mutant) the case is kept
toLowerCase_Same(s) == s

\* String.prototype.toLowerCase()
toLowerCase(s) == [k \in DOMAIN s |-> ToLower(s[k])]

\* String.prototype.includes(): q occurs in s as a substring
StrIncludes(s, q) ==
    \E k \in 0..(Len(s) - Len(q)) : SubSeq(s, k + 1, k + Len(q)) = q

\* cargo.field.toLowerCase().includes(query.toLowerCase())
FieldIncludes(c, field, query) ==
    StrIncludes(toLowerCase(c[field]), toLowerCase(query))

\* cargo.field?.toLowerCase().includes(query.toLowerCase()): undefined,
\* hence false, when the record has no such field
OptFieldIncludes(c, field, query) ==
    /\ field \in DOMAIN c
    /\ FieldIncludes(c, field, query)

\* the predicate of the search filter
SearchMatches(c, query) ==
    \/ FieldIncludes(c, "invoiceNumber", query)
    \/ FieldIncludes(c, "materialType", query)
    \/ OptFieldIncludes(c, "qualityInspector", query)
    \/ OptFieldIncludes(c, "storageLocation", query)
    \/ OptFieldIncludes(c, "notes", query)

\* new Date(cargo.receiveDate || cargo.inspectionDate)
CargoDate(c) ==
    IF "receiveDate" \in DOMAIN c THEN c.receiveDate ELSE c.inspectionDate

\* the predicate of the status filter
StatusKeeps(c, filter) ==
    CASE filter = "compliant" -> ~c.nonConforming
      [] filter = "non-compliant" -> c.nonConforming
      [] filter = "recent" -> CargoDate(c) > now - Week
      [] filter = "exported" -> c.exported
      [] filter = "not-exported" -> ~c.exported
      [] OTHER -> TRUE

\* (mutant) equal dates are put in front of the records already placed
RECURSIVE SortNewestFirst_TiesFirst(_)
SortNewestFirst_TiesFirst(s) ==
    IF s = <<>> THEN <<>>
    ELSE LET rest == SortNewestFirst_TiesFirst(SubSeq(s, 1, Len(s) - 1))
             x == s[Len(s)]
             k == Cardinality({m \in DOMAIN rest :
                                  CargoDate(rest[m]) > CargoDate(x)})
         IN  SubSeq(rest, 1, k) \o <<x>> \o SubSeq(rest, k + 1, Len(rest))

\* filtered.sort((a, b) => new Date(b...) - new Date(a...)): a stable sort,
\* newest first; each record goes behind those at least as new as it
RECURSIVE SortNewestFirst(_)
SortNewestFirst(s) ==
    IF s = <<>> THEN <<>>
    ELSE LET rest == SortNewestFirst(SubSeq(s, 1, Len(s) - 1))
             x == s[Len(s)]
             k == Cardinality({m \in DOMAIN rest :
                                  CargoDate(rest[m]) >= CargoDate(x)})
         IN  SubSeq(rest, 1, k) \o <<x>> \o SubSeq(rest, k + 1, Len(rest))

\* applyFilters: what setFilteredCargos receives
applyFilters(cargoList, query, filter) ==
    LET searched == IF query # <<>>
                    THEN Filter(cargoList, LAMBDA c : SearchMatches(c, query))
                    ELSE cargoList
        kept == Filter(searched, LAMBDA c : StatusKeeps(c, filter))
    IN  SortNewestFirst(kept)

\* loadCargos of the list screen finishes: setCargos(cargoList), then
\* applyFilters with the query and filter of the render it was made in
ListLoaded ==
    /\ listLoading
    /\ cargos' = store
    /\ filteredCargos' = applyFilters(store, loadArgs.query, loadArgs.filter)
    /\ listLoading' = FALSE
    /\ ended' = NoRun
    /\ alert' = "none"
    /\ UNCHANGED <<now, stats, recordVars, screen, formVars, dialogs, searchQuery,
                   selectedFilter, loadArgs, exportVars>>

\* the texts typed into the search bar
Queries == {<<>>, <<"a">>, <<"A", "B">>, <<"b", "a">>, <<"c", "c">>}

\* the entries of the filter menu
Filters ==
    {"all", "compliant", "non-compliant", "recent", "exported", "not-exported"}

\* handleSearch
handleSearch(query) ==
    /\ screen = "list"
    /\ dialogs = <<>>
    /\ searchQuery' = query
    /\ filteredCargos' = applyFilters(cargos, query, selectedFilter)
    /\ ended' = NoRun
    /\ alert' = "none"
    /\ UNCHANGED <<now, stats, recordVars, screen, formVars, cargos, listLoading,
                   dialogs, selectedFilter, loadArgs, exportVars>>

Search == \E query \in Queries : handleSearch(query)

\* handleFilterSelect
handleFilterSelect(filter) ==
    /\ screen = "list"
    /\ dialogs = <<>>
    /\ selectedFilter' = filter
    /\ filteredCargos' = applyFilters(cargos, searchQuery, filter)
    /\ ended' = NoRun
    /\ alert' = "none"
    /\ UNCHANGED <<now, stats, recordVars, screen, formVars, cargos, listLoading,
                   dialogs, searchQuery, loadArgs, exportVars>>

SelectFilter == \E filter \in Filters : handleFilterSelect(filter)

\* the add button: router.push('/add-cargo')
OpenAdd ==
    /\ screen = "list"
    /\ dialogs = <<>>
    /\ ~listLoading
    /\ screen' = "form"
    /\ isEdit' = FALSE
    /\ editId' = 0
    /\ UNCHANGED <<formData, errors>>
    /\ ended' = NoRun
    /\ alert' = "none"
    /\ UNCHANGED <<now, stats, recordVars, listVars, exportVars>>

\* handleEditCargo of a listed record
handleEditCargo(c) ==
    /\ screen = "list"
    /\ dialogs = <<>>
    /\ screen' = "form"
    /\ isEdit' = TRUE
    /\ editId' = c.id
    /\ UNCHANGED <<formData, errors>>
    /\ ended' = NoRun
    /\ alert' = "none"
    /\ UNCHANGED <<now, stats, recordVars, listVars, exportVars>>

OpenEdit == \E k \in DOMAIN filteredCargos : handleEditCargo(filteredCargos[k])

\* handleDeleteCargo: the confirmation dialog is shown; its Delete button
\* holds the record and the in-memory list of the render that made it.  A
\* second press before the first dialog is up stacks a second dialog for
\* the same record.
handleDeleteCargo(c) ==
    /\ screen = "list"
    /\ Len(dialogs) < MaxDialogs
    /\ dialogs # <<>> => dialogs[1].cargo = c.id
    /\ dialogs' = Append(dialogs, [cargo |-> c.id, cargos |-> cargos,
                                   query |-> searchQuery,
                                   filter |-> selectedFilter])
    /\ ended' = NoRun
    /\ alert' = "none"
    /\ UNCHANGED <<now, stats, recordVars, screen, formVars, cargos, listLoading,
                   shownVars, loadArgs, exportVars>>

PressDelete ==
    \E k \in DOMAIN filteredCargos : handleDeleteCargo(filteredCargos[k])

\* the collection the Delete button writes
DeletedCargos(d) == Filter(d.cargos, LAMBDA c : c.id # d.cargo)

\* what the Delete button reports
DeleteAlert(d) == "deleted"

\* the Delete button of a confirmation dialog
ConfirmDelete ==
    /\ dialogs # <<>>
    /\ store' = DeletedCargos(Head(dialogs))
    /\ alert' = DeleteAlert(Head(dialogs))
    /\ listLoading' = TRUE
    /\ loadArgs' = [query |-> Head(dialogs).query,
                    filter |-> Head(dialogs).filter]
    /\ dialogs' = Tail(dialogs)
    /\ ended' = NoRun
    /\ UNCHANGED <<now, stats, pending, lastInspector, screen, formVars, cargos,
                   shownVars, exportVars>>

\* the Cancel button of a confirmation dialog
CancelDelete ==
    /\ dialogs # <<>>
    /\ dialogs' = Tail(dialogs)
    /\ ended' = NoRun
    /\ alert' = "none"
    /\ UNCHANGED <<now, stats, recordVars, screen, formVars, cargos, listLoading,
                   shownVars, loadArgs, exportVars>>

\* ------------------------------------------------------------------ dashboard
\* a quotient of two integers; a number of the program that is not whole
Ratio(n, d) == [num |-> n, den |-> d]

\* useState({...}): the statistics before the first load
NoStats ==
    [totalInspections |-> 0, compliantCount |-> 0, nonCompliantCount |-> 0,
     recentCount |-> 0, complianceRate |-> Ratio(0, 1),
     nonConformanceTypes |-> <<>>, materialTypes |-> <<>>]

\* (mutant) the rate of the records that do not conform
ComplianceRate_NonCompliant(total, compliant) ==
    IF total > 0 THEN Ratio((total - compliant) * 100, total) ELSE Ratio(0, 1)

\* totalInspections > 0 ? (compliantCount / totalInspections) * 100 : 0
ComplianceRate(total, compliant) ==
    IF total > 0 THEN Ratio(compliant * 100, total) ELSE Ratio(0, 1)

\* cargo.nonConformanceType is truthy
HasType(c) ==
    /\ "nonConformanceType" \in DOMAIN c
    /\ c.nonConformanceType # NoType

\* the counting loop: an object from key to count, its keys in the order
\* they were first assigned
RECURSIVE Tally(_)
Tally(keys) ==
    IF keys = <<>> THEN <<>>
    ELSE LET rest == Tally(SubSeq(keys, 1, Len(keys) - 1))
             x == keys[Len(keys)]
         IN  IF \E k \in DOMAIN rest : rest[k].key = x
             THEN [k \in DOMAIN rest |->
                     IF rest[k].key = x
                     THEN [rest[k] EXCEPT !.count = @ + 1]
                     ELSE rest[k]]
             ELSE Append(rest, [key |-> x, count |-> 1])

\* a property name that is an array index: a canonical numeric string
IsIndexKey(key) == key # <<>> /\ AllDigits(key)

\* the number an index key denotes; every digit of the model is a 7
RECURSIVE IndexValue(_)
IndexValue(key) ==
    IF key = <<>> THEN 0
    ELSE 10 * IndexValue(SubSeq(key, 1, Len(key) - 1)) + 7

\* the entries in ascending order of their index
RECURSIVE SortByIndex(_)
SortByIndex(entries) ==
    IF entries = <<>> THEN <<>>
    ELSE LET rest == SortByIndex(SubSeq(entries, 1, Len(entries) - 1))
             x == entries[Len(entries)]
             k == Cardinality({m \in DOMAIN rest :
                                  IndexValue(rest[m].key) < IndexValue(x.key)})
         IN  SubSeq(rest, 1, k) \o <<x>> \o SubSeq(rest, k + 1, Len(rest))

\* Object.entries(): the array-index keys in ascending order, then the
\* other keys in the order they were first assigned
ObjectEntries(obj) ==
    SortByIndex(SelectSeq(obj, LAMBDA e : IsIndexKey(e.key)))
    \o SelectSeq(obj, LAMBDA e : ~IsIndexKey(e.key))

\* .sort(([,a], [,b]) => b - a): a stable sort, largest count first
RECURSIVE SortByCount(_)
SortByCount(entries) ==
    IF entries = <<>> THEN <<>>
    ELSE LET rest == SortByCount(SubSeq(entries, 1, Len(entries) - 1))
             x == entries[Len(entries)]
             k == Cardinality({m \in DOMAIN rest : rest[m].count >= x.count})
         IN  SubSeq(rest, 1, k) \o <<x>> \o SubSeq(rest, k + 1, Len(rest))

\* .slice(0, 5)
TopCount == 5

\* the keys the non-conformance loop counts; they are names of the list
\* NON_CONFORMANCE_TYPES, none of them an array index
TypeKeys(recs) ==
    LET typed == SelectSeq(recs, LAMBDA c : c.nonConforming /\ HasType(c))
    IN  [k \in DOMAIN typed |-> typed[k].nonConformanceType]

\* the keys the material loop counts
MaterialKeys(recs) == [k \in DOMAIN recs |-> recs[k].materialType]

\* cargos.filter(cargo => new Date(cargo.inspectionDate) > sevenDaysAgo).length
RecentCount(recs) ==
    Len(SelectSeq(recs, LAMBDA c : c.inspectionDate > now - Week))

\* what loadDashboardStats passes to setStats
DashboardStats(recs) ==
    LET total == Len(recs)
        compliant == Len(SelectSeq(recs, LAMBDA c : ~c.nonConforming))
    IN  [totalInspections |-> total,
         compliantCount |-> compliant,
         nonCompliantCount |-> Len(SelectSeq(recs, LAMBDA c : c.nonConforming)),
         recentCount |-> RecentCount(recs),
         complianceRate |-> ComplianceRate(total, compliant),
         nonConformanceTypes |-> Slice(SortByCount(Tally(TypeKeys(recs))), TopCount),
         materialTypes |->
             Slice(SortByCount(ObjectEntries(Tally(MaterialKeys(recs)))), TopCount)]

\* loadDashboardStats, run when the dashboard is mounted and by its
\* refresh button
loadDashboardStats ==
    /\ screen = "dashboard"
    /\ stats' = DashboardStats(store)
    /\ ended' = NoRun
    /\ alert' = "none"
    /\ UNCHANGED <<now, recordVars, screen, formVars, listVars, exportVars>>

\* ------------------------------------------------------------------ export-all
Sinks == {"device", "email", "whatsapp"}

IdleRun == [pc |-> "idle"]

Includes(seq, x) == \E k \in DOMAIN seq : seq[k] = x

\* loadCargos of the export screen, run when the screen is mounted
ExportLoaded(param) ==
    /\ allCargos' = store
    /\ cargoId' = param
    /\ exportType' = IF param # <<>> THEN "single" ELSE "all"
    /\ selectedCargos' = IF param # <<>> THEN param
                         ELSE [k \in DOMAIN store |-> store[k].id]

\* handleExportAll (no parameter) and handleExportSelected (cargoId)
OpenExport(param) ==
    /\ screen = "list"
    /\ dialogs = <<>>
    /\ ~listLoading
    /\ screen' = "export"
    /\ ExportLoaded(param)
    /\ ended' = NoRun
    /\ alert' = "none"
    /\ UNCHANGED <<now, stats, recordVars, formVars, listVars, exportFormat,
                   includePhotos, loading, progress, runs>>

OpenExportAll == OpenExport(<<>>)

OpenExportSelected == \E k \in DOMAIN cargos : OpenExport(<<cargos[k].id>>)

AllIdle == \A s \in Sinks : runs[s].pc = "idle"

\* the back arrow of the export screen, pressed between runs; the screen
\* is unmounted and its state is that of a fresh mount
ExportBack ==
    /\ screen = "export"
    /\ AllIdle
    /\ screen' = "list"
    /\ listLoading' = TRUE
    /\ cargoId' = <<>>
    /\ exportType' = "all"
    /\ exportFormat' = "organized"
    /\ includePhotos' = TRUE
    /\ selectedCargos' = <<>>
    /\ allCargos' = <<>>
    /\ loading' = FALSE
    /\ progress' = 0
    /\ ended' = NoRun
    /\ alert' = "none"
    /\ loadArgs' = FirstRender
    /\ UNCHANGED <<now, stats, recordVars, formVars, cargos, dialogs, shownVars, runs>>

ExportIdle == screen = "export" /\ AllIdle

\* the radio buttons and check boxes of the export screen
SetExportType ==
    /\ ExportIdle
    /\ \E v \in {"all", "selected"} : v # exportType /\ exportType' = v
    /\ ended' = NoRun
    /\ alert' = "none"
    /\ UNCHANGED <<now, stats, recordVars, screen, formVars, listVars, cargoId,
                   exportFormat, includePhotos, selectedCargos, allCargos,
                   loading, progress, runs>>

SetExportFormat ==
    /\ ExportIdle
    /\ exportFormat' = IF exportFormat = "organized" THEN "simple" ELSE "organized"
    /\ ended' = NoRun
    /\ alert' = "none"
    /\ UNCHANGED <<now, stats, recordVars, screen, formVars, listVars, cargoId,
                   exportType, includePhotos, selectedCargos, allCargos,
                   loading, progress, runs>>

ToggleIncludePhotos ==
    /\ ExportIdle
    /\ includePhotos' = ~includePhotos
    /\ ended' = NoRun
    /\ alert' = "none"
    /\ UNCHANGED <<now, stats, recordVars, screen, formVars, listVars, cargoId,
                   exportType, exportFormat, selectedCargos, allCargos,
                   loading, progress, runs>>

\* toggleCargoSelection
toggleCargoSelection(id) ==
    IF Includes(selectedCargos, id)
    THEN Filter(selectedCargos, LAMBDA x : x # id)
    ELSE Append(selectedCargos, id)

ToggleSelection ==
    /\ ExportIdle
    /\ exportType = "selected"
    /\ \E k \in DOMAIN allCargos :
          selectedCargos' = toggleCargoSelection(allCargos[k].id)
    /\ ended' = NoRun
    /\ alert' = "none"
    /\ UNCHANGED <<now, stats, recordVars, screen, formVars, listVars, cargoId,
                   exportType, exportFormat, includePhotos, allCargos,
                   loading, progress, runs>>

\* (mutant) the selection is ignored
cargosToExport_All(sel) == allCargos

\* cargosToExport: allCargos.filter(cargo => selectedCargos.includes(cargo.id))
cargosToExport(sel) == Filter(allCargos, LAMBDA c : Includes(sel, c.id))

SeqToSet(seq) == { seq[k] : k \in DOMAIN seq }

\* (mutant) every record is marked
MarkedCargos_All(recs, ids) ==
    [k \in DOMAIN recs |->
        [recs[k] EXCEPT !.exported = TRUE, !.exportDate = <<now>>]]

\* markAsExported: the collection and the pending list it writes
MarkedCargos(recs, ids) ==
    [k \in DOMAIN recs |->
        IF Includes(ids, recs[k].id)
        THEN [recs[k] EXCEPT !.exported = TRUE, !.exportDate = <<now>>]
        ELSE recs[k]]

\* (mutant) the pending list is left as it is
MarkedPending_Keep(pend, ids) == pend

MarkedPending(pend, ids) == Filter(pend, LAMBDA item : ~Includes(ids, item.id))

markAsExported(ids) ==
    /\ store' = MarkedCargos(store, ids)
    /\ pending' = MarkedPending(pending, ids)

\* a run as it starts: the values its closure holds
NewRun(cloud) ==
    [pc |-> "started", sel |-> selectedCargos, format |-> exportFormat,
     photos |-> includePhotos, cloud |-> cloud, i |-> 0, written |-> {},
     photoFailed |-> {}, composed |-> 0, staged |-> 0, before |-> store,
     pendingBefore |-> pending]

Scope(r) == cargosToExport(r.sel)

\* the record of a run that has finished
Ended(sink, r, outcome, dispatched, marked, alerts) ==
    [sink |-> sink, outcome |-> outcome, dispatched |-> dispatched,
     marked |-> marked, alerts |-> alerts, cloud |-> r.cloud,
     scope |-> Ids(Scope(r)), sel |-> r.sel, before |-> r.before,
     pendingBefore |-> r.pendingBefore, i |-> r.i,
     written |-> r.written, photoFailed |-> r.photoFailed,
     composed |-> r.composed, staged |-> r.staged, format |-> r.format,
     photos |-> r.photos]

LastOf(alerts) == IF alerts = <<>> THEN "none" ELSE alerts[Len(alerts)]

\* the alert of the catch block of exportToDevice
DeviceErrorAlert(kind) == IF kind = "full" THEN "storageFull" ELSE "exportFailed"

ErrorKinds == {"full", "other"}

\* the alerts a device run ends with: its own and, for the cloud sink,
\* the upload instructions of handleCloudExport
DeviceAlerts(r, own) ==
    own \o (IF r.cloud THEN <<"cloudInstructions">> ELSE <<>>)

\* exportToDevice returns or throws into its catch: finally, and the end
\* of handleCloudExport
DeviceEnd(r, outcome, dispatched, marked, own) ==
    /\ runs' = [runs EXCEPT !["device"] = IdleRun]
    /\ loading' = FALSE
    /\ progress' = 0
    /\ alert' = LastOf(DeviceAlerts(r, own))
    /\ ended' = Ended("device", r, outcome, dispatched, marked, DeviceAlerts(r, own))

exportFrame == <<now, stats, screen, formVars, listVars, cargoId, exportType,
                 exportFormat, includePhotos, selectedCargos, allCargos>>

\* exportToDevice up to its first await: setLoading, setProgress, the scope
DeviceStart(cloud) ==
    /\ screen = "export"
    /\ ~loading
    /\ runs["device"].pc = "idle"
    /\ LET r == NewRun(cloud) IN
       IF Scope(r) = <<>>
       THEN /\ DeviceEnd(r, "empty", FALSE, FALSE, <<"emptySelection">>)
            /\ UNCHANGED <<recordVars, exportFrame>>
       ELSE /\ runs' = [runs EXCEPT !["device"] = [r EXCEPT !.pc = "mkdir"]]
            /\ loading' = TRUE
            /\ progress' = 0
            /\ ended' = NoRun
            /\ alert' = "none"
            /\ UNCHANGED <<recordVars, exportFrame>>

\* the download button
ExportToDevice == DeviceStart(FALSE)

\* the cloud button and the choice of a provider: handleCloudExport
ExportToCloud == DeviceStart(TRUE)

\* makeDirectoryAsync(exportDir) and setProgress(0.1)
DeviceMkdir ==
    /\ runs["device"].pc = "mkdir"
    /\ LET r == runs["device"] IN
       \/ /\ runs' = [runs EXCEPT !["device"] =
                        [r EXCEPT !.pc = "summary",
                                  !.written = r.written \cup {<<"exportDir">>}]]
          /\ progress' = 100
          /\ ended' = NoRun
          /\ alert' = "none"
          /\ UNCHANGED <<recordVars, exportFrame, loading>>
       \/ /\ \E kind \in ErrorKinds :
                DeviceEnd(r, "failed", FALSE, FALSE, <<DeviceErrorAlert(kind)>>)
          /\ UNCHANGED <<recordVars, exportFrame>>

\* the sub-directories and the summary file
SummaryFiles(r) ==
    IF r.format = "organized"
    THEN {<<"reports/">>, <<"RELATORIO_RESUMO.txt">>}
         \cup (IF r.photos THEN {<<"photos/">>} ELSE {})
    ELSE {<<"resumo.txt">>}

DeviceSummary ==
    /\ runs["device"].pc = "summary"
    /\ LET r == runs["device"] IN
       \/ /\ runs' = [runs EXCEPT !["device"] =
                        [r EXCEPT !.pc = "records",
                                  !.written = r.written \cup SummaryFiles(r)]]
          /\ progress' = IF r.format = "organized" THEN 200 ELSE progress
          /\ ended' = NoRun
          /\ alert' = "none"
          /\ UNCHANGED <<recordVars, exportFrame, loading>>
       \/ /\ \E kind \in ErrorKinds :
                DeviceEnd(r, "failed", FALSE, FALSE, <<DeviceErrorAlert(kind)>>)
          /\ UNCHANGED <<recordVars, exportFrame>>

\* the report file of a record
ReportFile(r, cargo) ==
    IF r.format = "organized"
    THEN <<"reports/INSPECAO_", cargo.invoiceNumber>>
    ELSE <<"", cargo.invoiceNumber>>

\* the photo step of one record: the directory, then the photos in order.
\* fp is the write that throws: 0 the directory, j the file of photo j,
\* Len(photos) + 1 none.  thrown: the exception leaves the record's loop body.
PhotoFaults(cargo) ==
    {0, Len(cargo.photos) + 1}
    \cup { j \in DOMAIN cargo.photos : cargo.photos[j] # NoPayload }

\* (mutant) no try/catch around the photos of a record
SavePhotos_NoCatch(cargo, fp) ==
    [written |->
        (IF fp > 0 THEN {<<"photos/", cargo.invoiceNumber>>} ELSE {})
        \cup { <<"photos/", cargo.invoiceNumber, j>> :
                 j \in { m \in DOMAIN cargo.photos :
                           m < fp /\ cargo.photos[m] # NoPayload } },
     failed |-> fp <= Len(cargo.photos)
                \/ \E m \in DOMAIN cargo.photos : cargo.photos[m] = NoPayload,
     thrown |-> fp <= Len(cargo.photos)]

SavePhotos(cargo, fp) ==
    [written |->
        (IF fp > 0 THEN {<<"photos/", cargo.invoiceNumber>>} ELSE {})
        \cup { <<"photos/", cargo.invoiceNumber, j>> :
                 j \in { m \in DOMAIN cargo.photos :
                           m < fp /\ cargo.photos[m] # NoPayload } },
     failed |-> fp <= Len(cargo.photos)
                \/ \E m \in DOMAIN cargo.photos : cargo.photos[m] = NoPayload,
     thrown |-> FALSE]

\* (mutant) the fraction counts the records still to come
RecordProgress_Down(i, n) == 200 + (600 * (n - i)) \div n

\* setProgress(0.2 + (0.6 * (i + 1) / cargosToExport.length))
RecordProgress(i, n) == 200 + (600 * (i + 1)) \div n

\* one turn of the loop over cargosToExport
DeviceRecord ==
    /\ runs["device"].pc = "records"
    /\ LET r == runs["device"]
           n == Len(Scope(r))
           cargo == Scope(r)[r.i + 1]
           withPhotos == r.format = "organized" /\ r.photos /\ cargo.photos # <<>>
       IN
       /\ r.i < n
       /\ \/ \E fp \in (IF withPhotos THEN PhotoFaults(cargo) ELSE {1}) :
               LET ph == IF withPhotos THEN SavePhotos(cargo, fp)
                         ELSE [written |-> {}, failed |-> FALSE, thrown |-> FALSE]
                   r2 == [r EXCEPT !.written = r.written \cup {ReportFile(r, cargo)}
                                                \cup ph.written,
                                   !.photoFailed = IF ph.failed
                                                   THEN r.photoFailed \cup {r.i + 1}
                                                   ELSE r.photoFailed]
               IN  IF ph.thrown
                   THEN /\ DeviceEnd(r2, "failed", FALSE, FALSE,
                                     <<DeviceErrorAlert("other")>>)
                        /\ UNCHANGED <<recordVars, exportFrame>>
                   ELSE /\ runs' = [runs EXCEPT !["device"] = [r2 EXCEPT !.i = r.i + 1]]
                        /\ progress' = RecordProgress(r.i, n)
                        /\ ended' = NoRun
                        /\ alert' = "none"
                        /\ UNCHANGED <<recordVars, exportFrame, loading>>
          \/ /\ \E kind \in ErrorKinds :
                   DeviceEnd(r, "failed", FALSE, FALSE, <<DeviceErrorAlert(kind)>>)
             /\ UNCHANGED <<recordVars, exportFrame>>

\* after the loop: setProgress(0.9) and markAsExported(selectedCargos)
DeviceMark ==
    /\ runs["device"].pc = "records"
    /\ LET r == runs["device"] IN
       /\ r.i = Len(Scope(r))
       /\ progress' = 900
       /\ markAsExported(r.sel)
       /\ runs' = [runs EXCEPT !["device"] = [r EXCEPT !.pc = "share"]]
       /\ ended' = NoRun
       /\ alert' = "none"
       /\ UNCHANGED <<lastInspector, exportFrame, loading>>

\* Sharing.isAvailableAsync and Sharing.shareAsync
DeviceShare ==
    /\ runs["device"].pc = "share"
    /\ LET r == runs["device"] IN
       /\ \/ DeviceEnd(r, "success", TRUE, TRUE, <<"exportShared">>)
          \/ DeviceEnd(r, "success", TRUE, TRUE, <<"exportSaved">>)
          \/ \E kind \in ErrorKinds :
                DeviceEnd(r, "failed", FALSE, TRUE, <<DeviceErrorAlert(kind)>>)
       /\ UNCHANGED <<recordVars, exportFrame>>

\* ---- e-mail
\* an e-mail or messaging run ends: the handler returns
RunEnd(sink, r, outcome, dispatched, marked, alerts) ==
    /\ runs' = [runs EXCEPT ![sink] = IdleRun]
    /\ alert' = LastOf(alerts)
    /\ ended' = Ended(sink, r, outcome, dispatched, marked, alerts)

\* exportViaEmail up to its first await, MailComposer.isAvailableAsync
ExportViaEmail ==
    /\ screen = "export"
    /\ ~loading
    /\ runs["email"].pc = "idle"
    /\ runs' = [runs EXCEPT !["email"] = [NewRun(FALSE) EXCEPT !.pc = "available"]]
    /\ ended' = NoRun
    /\ alert' = "none"
    /\ UNCHANGED <<recordVars, exportFrame, loading, progress>>

\* the answer of isAvailableAsync, the scope and setLoading(true); an
\* early return runs the finally block
EmailAvailable ==
    /\ runs["email"].pc = "available"
    /\ LET r == runs["email"] IN
       \/ /\ RunEnd("email", r, "unavailable", FALSE, FALSE, <<"emailUnavailable">>)
          /\ loading' = FALSE
          /\ UNCHANGED <<recordVars, exportFrame, progress>>
       \/ /\ RunEnd("email", r, "failed", FALSE, FALSE, <<"emailFailed">>)
          /\ loading' = FALSE
          /\ UNCHANGED <<recordVars, exportFrame, progress>>
       \/ /\ Scope(r) = <<>>
          /\ RunEnd("email", r, "empty", FALSE, FALSE, <<"emptySelection">>)
          /\ loading' = FALSE
          /\ UNCHANGED <<recordVars, exportFrame, progress>>
       \/ /\ Scope(r) # <<>>
          /\ runs' = [runs EXCEPT !["email"] = [r EXCEPT !.pc = "staging"]]
          /\ loading' = TRUE
          /\ ended' = NoRun
          /\ alert' = "none"
          /\ UNCHANGED <<recordVars, exportFrame, progress>>

\* cargosToExport.slice(0, 10)
AttachmentLimit == 10

\* the attachments in the order they are staged: the temporary directory,
\* the summary, then the reports
StagedFiles(r) ==
    <<  <<"tempDir">>, <<"relatorio_resumo.txt">>  >>
    \o [k \in DOMAIN Slice(Scope(r), AttachmentLimit) |->
          <<"temp/", Scope(r)[k].invoiceNumber>>]

\* The try block of exportViaEmail and its catch.  staged: the number of
\* staging writes that succeed; first, cleanup, fallback: whether the
\* compose with attachments, the deleteAsync and the body-only compose
\* succeed.  The result: which composes were made, whether the records
\* were marked, and whether the handler ended in its outer catch.
\* (mutant) the records are marked on the first compose only
EmailOutcome_NoFallbackMark(r, staged, first, cleanup, fallback) ==
    LET stagedAll == staged = Len(StagedFiles(r))
        firstDone == stagedAll /\ first
        tryDone == firstDone /\ cleanup
        fallbackTried == ~tryDone
        fallbackDone == fallbackTried /\ fallback
    IN  [written |-> { StagedFiles(r)[k] : k \in 1..staged },
         composed |-> (IF firstDone THEN 1 ELSE 0) + (IF fallbackDone THEN 1 ELSE 0),
         attempts |-> (IF stagedAll THEN 1 ELSE 0) + (IF fallbackTried THEN 1 ELSE 0),
         marked |-> firstDone,
         failed |-> fallbackTried /\ ~fallbackDone]

EmailOutcome(r, staged, first, cleanup, fallback) ==
    LET stagedAll == staged = Len(StagedFiles(r))
        firstDone == stagedAll /\ first
        tryDone == firstDone /\ cleanup
        fallbackTried == ~tryDone
        fallbackDone == fallbackTried /\ fallback
    IN  [written |-> { StagedFiles(r)[k] : k \in 1..staged },
         composed |-> (IF firstDone THEN 1 ELSE 0) + (IF fallbackDone THEN 1 ELSE 0),
         attempts |-> (IF stagedAll THEN 1 ELSE 0) + (IF fallbackTried THEN 1 ELSE 0),
         marked |-> firstDone \/ fallbackDone,
         failed |-> fallbackTried /\ ~fallbackDone]

\* the rest of exportViaEmail: staging, compose, markAsExported, clean-up
EmailSend ==
    /\ runs["email"].pc = "staging"
    /\ LET r == runs["email"] IN
       \E staged \in 0..Len(StagedFiles(r)), first, cleanup, fallback \in BOOLEAN :
          LET o == EmailOutcome(r, staged, first, cleanup, fallback)
              r2 == [r EXCEPT !.written = o.written, !.composed = o.composed,
                              !.staged = staged]
          IN  /\ IF o.marked THEN markAsExported(r.sel) /\ UNCHANGED lastInspector
                 ELSE UNCHANGED recordVars
              /\ RunEnd("email", r2, IF o.failed THEN "failed" ELSE "success",
                        o.composed > 0, o.marked,
                        IF o.failed THEN <<"emailFailed">> ELSE <<>>)
              /\ loading' = FALSE
              /\ UNCHANGED <<exportFrame, progress>>

\* ---- messaging link
\* exportViaWhatsApp up to its first await, Linking.canOpenURL
ExportViaWhatsApp ==
    /\ screen = "export"
    /\ ~loading
    /\ runs["whatsapp"].pc = "idle"
    /\ LET r == NewRun(FALSE) IN
       IF Scope(r) = <<>>
       THEN /\ RunEnd("whatsapp", r, "empty", FALSE, FALSE, <<"emptySelection">>)
            /\ UNCHANGED <<recordVars, exportFrame, loading, progress>>
       ELSE /\ runs' = [runs EXCEPT !["whatsapp"] = [r EXCEPT !.pc = "link"]]
            /\ ended' = NoRun
            /\ alert' = "none"
            /\ UNCHANGED <<recordVars, exportFrame, loading, progress>>

\* canOpenURL, openURL and markAsExported
WhatsAppOpen ==
    /\ runs["whatsapp"].pc = "link"
    /\ LET r == runs["whatsapp"] IN
       \/ /\ markAsExported(r.sel)
          /\ RunEnd("whatsapp", r, "success", TRUE, TRUE, <<>>)
          /\ UNCHANGED <<lastInspector, exportFrame, loading, progress>>
       \/ /\ RunEnd("whatsapp", r, "unavailable", FALSE, FALSE, <<"whatsappUnavailable">>)
          /\ UNCHANGED <<recordVars, exportFrame, loading, progress>>
       \/ /\ RunEnd("whatsapp", r, "failed", FALSE, FALSE, <<"whatsappFailed">>)
          /\ UNCHANGED <<recordVars, exportFrame, loading, progress>>

\* ------------------------------------------------------------------ clock
\* The clock is read by handleSave and by markAsExported: it advances
\* while a form is being filled in and before an export is started.
Tick ==
    /\ now < MaxTime
    /\ screen = "form" \/ ExportIdle
    /\ ended' = NoRun
    /\ alert' = "none"
    /\ now' = now + 1
    /\ UNCHANGED <<stats, recordVars, screen, formVars, listVars, exportVars>>

\* ------------------------------------------------------------------ specifications
ScreenInit ==
    /\ lastInspector = <<>>
    /\ stats = NoStats
    /\ searchQuery = <<>>
    /\ selectedFilter = "all"
    /\ loadArgs = FirstRender
    /\ errors = {}
    /\ dialogs = <<>>
    /\ alert = "none"
    /\ exportFormat = "organized"
    /\ includePhotos = TRUE
    /\ loading = FALSE
    /\ progress = 0
    /\ runs = [s \in Sinks |-> IdleRun]
    /\ ended = NoRun

\* the application as installed: nothing stored, the list screen in front
Init ==
    /\ now = 1
    /\ store = <<>>
    /\ pending = <<>>
    /\ screen = "list"
    /\ cargos = <<>>
    /\ filteredCargos = <<>>
    /\ listLoading = TRUE
    /\ cargoId = <<>>
    /\ exportType = "all"
    /\ selectedCargos = <<>>
    /\ allCargos = <<>>
    /\ isEdit = FALSE
    /\ editId = 0
    /\ formData = EmptyForm
    /\ ScreenInit

FormStep == Save \/ FormBack

ListStep ==
    \/ ListLoaded \/ OpenAdd \/ OpenEdit \/ PressDelete \/ ConfirmDelete
    \/ CancelDelete \/ OpenExportAll \/ OpenExportSelected

OptionStep ==
    SetExportType \/ SetExportFormat \/ ToggleIncludePhotos \/ ToggleSelection

DeviceStep ==
    \/ ExportToDevice \/ ExportToCloud \/ DeviceMkdir \/ DeviceSummary
    \/ DeviceRecord \/ DeviceMark \/ DeviceShare

EmailStep == ExportViaEmail \/ EmailAvailable \/ EmailSend

WhatsAppStep == ExportViaWhatsApp \/ WhatsAppOpen

FilterStep == Search \/ SelectFilter

Next ==
    \/ FormStep \/ ListStep \/ FilterStep \/ loadDashboardStats
    \/ ExportBack \/ OptionStep
    \/ DeviceStep \/ EmailStep \/ WhatsAppStep \/ Tick

Spec == Init /\ [][Next]_vars

\* ---- the record lifecycle: the form, the list and the messaging sink
NextStore ==
    \/ FormStep \/ ListStep \/ ExportBack \/ WhatsAppStep \/ Tick

SpecStore == Init /\ [][NextStore]_vars

\* ---- the export screen, opened over a stored collection
\* record k of a collection, created at time k from form f and, when ex,
\* exported at once
StoredRecord(k, f, ex) ==
    [id |-> k,
     invoiceNumber |-> f.invoiceNumber,
     materialType |-> f.materialType,
     qualityInspector |-> f.qualityInspector,
     nonConforming |-> f.nonConforming,
     nonConformanceType |-> f.nonConformanceType,
     nonConformingQuantity |-> f.nonConformingQuantity,
     photos |-> f.photos,
     inspectionDate |-> k,
     lastModified |-> k,
     exported |-> ex,
     exportDate |-> IF ex THEN <<k>> ELSE NoDate]

StoredCollections ==
    UNION { { [k \in 1..n |-> StoredRecord(k, fs[k], ex[k])] :
                fs \in [1..n -> {FormA, FormB}], ex \in [1..n -> BOOLEAN] } :
            n \in 0..MaxRecords }

\* the pending entries of the records not exported yet
PendingOf(recs) ==
    LET open == Filter(recs, LAMBDA c : ~c.exported) IN
    [k \in DOMAIN open |->
        [id |-> open[k].id, invoiceNumber |-> open[k].invoiceNumber,
         syncAction |-> "create", syncTimestamp |-> open[k].id]]

InitExport ==
    /\ store \in StoredCollections
    /\ now = (IF store = <<>> THEN 1 ELSE Len(store))
    /\ pending = PendingOf(store)
    /\ screen = "export"
    /\ cargos = store
    /\ filteredCargos = applyFilters(store, <<>>, "all")
    /\ listLoading = FALSE
    /\ allCargos = store
    /\ cargoId \in {<<>>} \cup { <<k>> : k \in 1..(MaxRecords + 1) }
    /\ exportType = (IF cargoId # <<>> THEN "single" ELSE "all")
    /\ selectedCargos = (IF cargoId # <<>> THEN cargoId
                         ELSE [k \in DOMAIN store |-> store[k].id])
    /\ isEdit = FALSE
    /\ editId = 0
    /\ formData = EmptyForm
    /\ ScreenInit

\* the user starts a run when no other run is in flight
StartDevice == AllIdle /\ ExportToDevice

StartCloud == AllIdle /\ ExportToCloud

StartEmail == AllIdle /\ ExportViaEmail

StartWhatsApp == AllIdle /\ ExportViaWhatsApp

StartStep == StartDevice \/ StartCloud \/ StartEmail \/ StartWhatsApp

RunStep ==
    \/ DeviceMkdir \/ DeviceSummary \/ DeviceRecord \/ DeviceMark
    \/ DeviceShare \/ EmailAvailable \/ EmailSend \/ WhatsAppOpen

NextExport ==
    \/ OptionStep \/ StartStep \/ RunStep \/ Tick

SpecExport == InitExport /\ [][NextExport]_vars

\* ---- the export handlers as the buttons allow them: a button is
\* enabled whenever loading is false
NextRuns == DeviceStep \/ EmailStep \/ WhatsAppStep

\* the screen opened with the export-all button
InitRuns == InitExport /\ cargoId = <<>>

SpecRuns == InitRuns /\ [][NextRuns]_vars

\* ---- applyFilters on the list screen as it is mounted, over collections
\* whose records carry, or lack, the optional fields; the clock counts days
TextProfiles ==
    {[invoiceNumber |-> <<"A", "b">>, materialType |-> <<"c">>],
     [invoiceNumber |-> <<"c">>, materialType |-> <<"a", "B">>],
     [invoiceNumber |-> <<"c">>, materialType |-> <<"c">>,
      qualityInspector |-> <<"A", "B">>],
     [invoiceNumber |-> <<"c">>, materialType |-> <<"c">>,
      storageLocation |-> <<"a", "b">>],
     [invoiceNumber |-> <<"c">>, materialType |-> <<"c">>,
      notes |-> <<"b", "A">>],
     [invoiceNumber |-> <<"c">>, materialType |-> <<"c">>,
      qualityInspector |-> <<"c">>, storageLocation |-> <<"c">>,
      notes |-> <<"c">>]}

DateProfiles ==
    {[inspectionDate |-> 0],
     [inspectionDate |-> 1],
     [receiveDate |-> 2, inspectionDate |-> 0],
     [receiveDate |-> 0, inspectionDate |-> 2]}

FilterRecord(id, text, date, nc, ex) ==
    [id |-> id, nonConforming |-> nc, exported |-> ex] @@ text @@ date

FilterCollections ==
    UNION { { [k \in 1..n |->
                  FilterRecord(k, c[k][1], c[k][2], c[k][3], c[k][4])] :
              c \in [1..n -> TextProfiles \X DateProfiles
                                \X BOOLEAN \X BOOLEAN] } :
            n \in 0..MaxRecords }

InitFilter ==
    /\ now = Week + 1
    /\ store \in FilterCollections
    /\ pending = <<>>
    /\ screen = "list"
    /\ cargos = <<>>
    /\ filteredCargos = <<>>
    /\ listLoading = TRUE
    /\ cargoId = <<>>
    /\ exportType = "all"
    /\ selectedCargos = <<>>
    /\ allCargos = <<>>
    /\ isEdit = FALSE
    /\ editId = 0
    /\ formData = EmptyForm
    /\ ScreenInit

NextFilter == ListLoaded \/ Search \/ SelectFilter

SpecFilter == InitFilter /\ [][NextFilter]_vars

\* ---- loadDashboardStats over collections of up to MaxStats records: six
\* material types, two of them numbers, records with and without a
\* non-conformance type or a receive date; the clock counts days
StatsProfiles ==
    {[materialType |-> <<"a">>, nonConforming |-> FALSE,
      nonConformanceType |-> NoType, inspectionDate |-> 2],
     [materialType |-> <<"b">>, nonConforming |-> TRUE,
      nonConformanceType |-> PhysicalDamage, inspectionDate |-> 0],
     [materialType |-> <<"7">>, nonConforming |-> TRUE,
      nonConformanceType |-> "nonConformance.contamination",
      inspectionDate |-> 1],
     [materialType |-> <<"7", "7">>, nonConforming |-> TRUE,
      inspectionDate |-> 2, receiveDate |-> 0],
     [materialType |-> <<"c">>, nonConforming |-> FALSE,
      nonConformanceType |-> PhysicalDamage, inspectionDate |-> 0,
      receiveDate |-> 2],
     [materialType |-> <<"d">>, nonConforming |-> TRUE,
      nonConformanceType |-> NoType, inspectionDate |-> 2]}

StatsCollections == UNION { [1..n -> StatsProfiles] : n \in 0..MaxStats }

InitStats ==
    /\ now = Week + 1
    /\ store \in StatsCollections
    /\ pending = <<>>
    /\ screen = "dashboard"
    /\ cargos = <<>>
    /\ filteredCargos = <<>>
    /\ listLoading = FALSE
    /\ cargoId = <<>>
    /\ exportType = "all"
    /\ selectedCargos = <<>>
    /\ allCargos = <<>>
    /\ isEdit = FALSE
    /\ editId = 0
    /\ formData = EmptyForm
    /\ ScreenInit

SpecStats == InitStats /\ [][loadDashboardStats]_vars

\* ---- validateForm over every form
InitValidate ==
    /\ now = MaxTime
    /\ store \in {<<>>, <<StoredRecord(1, FormA, FALSE)>>}
    /\ pending = PendingOf(store)
    /\ screen = "form"
    /\ isEdit \in BOOLEAN
    /\ editId = (IF isEdit THEN 1 ELSE 0)
    /\ cargos = store
    /\ filteredCargos = applyFilters(store, <<>>, "all")
    /\ listLoading = FALSE
    /\ cargoId = <<>>
    /\ exportType = "all"
    /\ selectedCargos = <<>>
    /\ allCargos = <<>>
    /\ formData \in FormInputs
    /\ ScreenInit

SpecValidate == InitValidate /\ [][SaveTyped]_vars

\* ------------------------------------------------------------------ claims
SuccessAlerts == {"inspectionSaved", "inspectionUpdated"}

\* a string that is empty or holds white space only
Blank(s) == \A k \in DOMAIN s : s[k] = SP

\* the ids a finished run had in scope: selected and loaded
InScope(e, id) == Includes(e.sel, id) /\ id \in Ids(allCargos)

RunEnded == ended.sink # "none"

C2_FailedDispatchLeavesFlags ==
    (RunEnded /\ ~ended.dispatched) =>
        \A k \in DOMAIN store :
           InScope(ended, store[k].id) =>
              store[k].exported = ended.before[k].exported

C4_BlankRequiredRejected ==
    [][ (screen = "form" /\ alert' # "none"
         /\ (\/ Blank(formData.invoiceNumber)
             \/ Blank(formData.materialType)
             \/ Blank(formData.qualityInspector)))
        => /\ store' = store
           /\ pending' = pending
           /\ lastInspector' = lastInspector
           /\ alert' = "validationError" ]_vars

\* C4 witness: an edit of a stored record rejected for a blank inspector.
C4_Witness ==
    /\ alert = "validationError"
    /\ isEdit /\ FindIndex(store, editId) # 0
    /\ ~Blank(formData.invoiceNumber)
    /\ ~Blank(formData.materialType)
    /\ formData.qualityInspector = <<SP>>
    /\ store = <<StoredRecord(1, FormA, FALSE)>>

\* C5 (the claim as stated): with nonConforming set, validation fails when
\* the type is missing or the quantity is missing or not a number, and passes
\* when both are present and the quantity is a number.
C5_NonConformingValidated ==
    [][ (screen = "form" /\ alert' # "none" /\ formData.nonConforming
         /\ ~Blank(formData.invoiceNumber)
         /\ ~Blank(formData.materialType)
         /\ ~Blank(formData.qualityInspector))
        => IF \/ formData.nonConformanceType = NoType
              \/ Blank(formData.nonConformingQuantity)
              \/ ~IsNumeric(formData.nonConformingQuantity)
           THEN alert' = "validationError"
           ELSE alert' \in SuccessAlerts ]_vars

\* C6 (the claim as stated): saving an edit whose id is not in the stored
\* collection writes no record and no pending entry and reports a failure.
C6_UpdateOfAbsentIdFails ==
    [][ (screen = "form" /\ isEdit /\ editId \notin Ids(store)
         /\ alert' # "none")
        => /\ store' = store
           /\ pending' = pending
           /\ alert' \notin SuccessAlerts ]_vars

\* C7 (the claim as stated): confirming the deletion of a record that is
\* not in the stored collection is reported as an error.
C7_DeleteOfMissingIdFails ==
    [][ (dialogs # <<>> /\ Head(dialogs).cargo \notin Ids(store)
         /\ alert' # "none")
        => alert' # "deleted" ]_vars

\* a finished run in whose scope there was no record
EmptyScope(e) == \A k \in DOMAIN allCargos : ~InScope(e, allCargos[k].id)

\* a finished run that wrote no file and changed neither stored document
NothingDone(e) ==
    /\ e.written = {}
    /\ ~e.marked
    /\ store = e.before
    /\ pending = e.pendingBefore

\* the first alert a finished run showed
FirstAlert(e) == IF e.alerts = <<>> THEN "none" ELSE Head(e.alerts)

ScopeReport(r, k) == ReportFile(r, Scope(r)[k])

\* C9: in an organized device run with photos, a missing payload or a failed
\* photo write is absorbed: the record's report is already written, the loop
\* goes on to the later records, and the run reaches the dispatch with every
\* report written.
C9_PhotoFailureAbsorbed ==
    /\ LET r == runs.device IN
       r.pc \in {"records", "share"} =>
          /\ r.photoFailed \subseteq 1..r.i
          /\ \A k \in 1..r.i : ScopeReport(r, k) \in r.written
          /\ r.pc = "share" => r.i = Len(Scope(r))
    /\ (RunEnded /\ ended.sink = "device") =>
          /\ ended.photoFailed \subseteq 1..ended.i
          /\ ended.marked => ended.i = Cardinality(ended.scope)

\* C9 witness: a dispatched run over two records in which the photos of the
\* first one failed.
C9_Witness ==
    /\ RunEnded /\ ended.sink = "device" /\ ended.dispatched
    /\ ended.format = "organized" /\ ended.photos
    /\ ended.i = 2
    /\ 1 \in ended.photoFailed

\* what a call of markAsExported with these ids does to the two documents
MarkFrame(ids) ==
    /\ Len(store') = Len(store)
    /\ \A k \in DOMAIN store :
          IF store[k].id \in ids
          THEN /\ store'[k].exported
               /\ store'[k].exportDate = <<now>>
               /\ [store'[k] EXCEPT !.exported = store[k].exported,
                                    !.exportDate = store[k].exportDate]
                  = store[k]
          ELSE store'[k] = store[k]
    /\ pending' = SelectSeq(pending, LAMBDA e : e.id \notin ids)

PendingFor(pend, id) == { k \in DOMAIN pend : pend[k].id = id }

C12_PendingOnlyUnexported ==
    \A k \in DOMAIN store :
       store[k].exported => PendingFor(pending, store[k].id) = {}

\* C13 (the claim as stated): no two stored records share an id.
C13_IdsAreUnique ==
    \A j, k \in DOMAIN store : j # k => store[j].id # store[k].id

\* the sinks with a run in flight
InFlight == { s \in Sinks : runs[s].pc # "idle" }

\* C14 (the claim as stated): at most one export run is in flight at any
\* time.
C14_OneRunInFlight == Cardinality(InFlight) <= 1

\* C15 (the claim as stated): a run started with the export type "all" has
\* the whole loaded collection in scope.
C15_ScopeAllIsEverything ==
    (RunEnded /\ exportType = "all") => ended.scope = Ids(allCargos)

\* the number of files the email sink stages for a finished run
ToStage(e) ==
    2 + (IF Cardinality(e.scope) < AttachmentLimit
         THEN Cardinality(e.scope) ELSE AttachmentLimit)

\* a finished email run in which a staging write failed
StagingFailed(e) ==
    /\ e.sink = "email"
    /\ e.outcome \in {"success", "failed"}
    /\ e.staged < ToStage(e)

C17_ProgressRises ==
    [][ LET r == runs.device
            r2 == runs'.device
        IN  /\ (r.pc = "idle" /\ r2.pc # "idle") => progress' = 0
            /\ (r.pc # "idle" /\ r2.pc # "idle") =>
                  /\ progress' >= progress
                  /\ r2.i > r.i => progress' > progress
                  /\ r2.pc = "share" =>
                        /\ progress' = 900
                        /\ r2.i = Len(Scope(r2)) ]_vars

\* C17 witness: a flat run over two records about to be dispatched.
C17_Witness ==
    /\ runs.device.pc = "share"
    /\ runs.device.format = "simple"
    /\ runs.device.i = 2
    /\ progress = 900

\* ---- the list filter
\* a step in which applyFilters ran
FilterRan ==
    \/ listLoading /\ ~listLoading'
    \/ searchQuery' # searchQuery
    \/ selectedFilter' # selectedFilter
    \/ filteredCargos' # filteredCargos

\* the query and the category it ran with
RanQuery == IF listLoading /\ ~listLoading' THEN loadArgs.query ELSE searchQuery'

RanFilter ==
    IF listLoading /\ ~listLoading' THEN loadArgs.filter ELSE selectedFilter'

Listed == { cargos'[k] : k \in DOMAIN cargos' }

Shown == { filteredCargos'[k] : k \in DOMAIN filteredCargos' }

\* two characters that differ at most in case
SameLetter(x, y) ==
    \/ x = y
    \/ {x, y} = {"a", "A"}
    \/ {x, y} = {"b", "B"}

ContainsNoCase(text, q) ==
    \E k \in 0..(Len(text) - Len(q)) :
        \A j \in 1..Len(q) : SameLetter(text[k + j], q[j])

SearchedFields ==
    {"invoiceNumber", "materialType", "qualityInspector", "storageLocation",
     "notes"}

QueryMatches(c, q) ==
    \/ q = <<>>
    \/ \E field \in SearchedFields \cap DOMAIN c : ContainsNoCase(c[field], q)

DateOf(c) ==
    IF "receiveDate" \in DOMAIN c THEN c.receiveDate ELSE c.inspectionDate

CategoryHolds(c, f) ==
    /\ f = "compliant" => ~c.nonConforming
    /\ f = "non-compliant" => c.nonConforming
    /\ f = "exported" => c.exported
    /\ f = "not-exported" => ~c.exported

C19_AllSortedNewestFirst ==
    [][ (FilterRan /\ RanQuery = <<>> /\ RanFilter = "all") =>
          LET out == filteredCargos' IN
          /\ Len(out) = Len(cargos')
          /\ Shown = Listed
          /\ \A i, j \in DOMAIN out :
                i < j =>
                   /\ DateOf(out[i]) >= DateOf(out[j])
                   /\ DateOf(out[i]) = DateOf(out[j]) =>
                         FindIndex(cargos', out[i].id)
                            < FindIndex(cargos', out[j].id)
          /\ applyFilters(out, <<>>, "all") = out ]_vars

\* C19 witness: the second record, dated by its receiveDate, is shown first.
C19_Witness ==
    /\ searchQuery = <<>>
    /\ selectedFilter = "all"
    /\ Len(cargos) = 2
    /\ Len(filteredCargos) = 2
    /\ filteredCargos[1] = cargos[2]
    /\ "receiveDate" \in DOMAIN cargos[2]
    /\ "receiveDate" \notin DOMAIN cargos[1]

\* C20: in the category recent a matching record is shown exactly when its
\* date is not before now minus seven days.
C20_RecentIncludesSeventhDay ==
    [][ (FilterRan /\ RanFilter = "recent") =>
          \A c \in Listed :
             QueryMatches(c, RanQuery) =>
                (c \in Shown <=> DateOf(c) >= now - Week) ]_vars

\* ---- the dashboard
\* a step in which loadDashboardStats set new statistics
StatsSet == stats' # stats

\* C21: the dashboard's compliant and non-compliant counts add up to the
\* number of records; the compliance rate is 100 times the compliant
\* share, 0 for an empty collection, and lies between 0 and 100.
C21_RateIsCompliantShare ==
    [][ StatsSet =>
          LET st == stats'
              rate == st.complianceRate
          IN  /\ st.totalInspections = Len(store)
              /\ st.compliantCount =
                    Cardinality({k \in DOMAIN store : ~store[k].nonConforming})
              /\ st.compliantCount + st.nonCompliantCount = st.totalInspections
              /\ rate.den > 0
              /\ st.totalInspections > 0 =>
                    rate.num * st.totalInspections
                       = 100 * st.compliantCount * rate.den
              /\ st.totalInspections = 0 => rate.num = 0
              /\ 0 <= rate.num /\ rate.num <= 100 * rate.den ]_vars

\* C21 witness: one record of three conforms.
C21_Witness ==
    /\ stats.totalInspections = 3
    /\ stats.compliantCount = 1
    /\ stats.nonCompliantCount = 2
    /\ stats.complianceRate = Ratio(100, 3)

\* C22: recentCount is the number of records whose receiveDate, or else
\* inspectionDate, is after now minus seven days.
C22_RecentCountByRelevantDate ==
    [][ StatsSet =>
          stats'.recentCount =
             Cardinality({k \in DOMAIN store : DateOf(store[k]) > now - Week})
      ]_vars

\* the place a key is first seen at among keys
FirstSeen(keys, key) ==
    CHOOSE k \in DOMAIN keys :
        /\ keys[k] = key
        /\ \A m \in DOMAIN keys : keys[m] = key => k <= m

\* b lists at most five (key, count) pairs of the keys, each key once with
\* the number of times it occurs, larger counts first and equal counts in
\* the order the keys were first seen
IsBreakdown(b, keys) ==
    /\ Len(b) <= 5
    /\ Len(b) <= Cardinality({keys[k] : k \in DOMAIN keys})
    /\ Len(b) = 5 \/ Len(b) = Cardinality({keys[k] : k \in DOMAIN keys})
    /\ \A i \in DOMAIN b :
          /\ \E k \in DOMAIN keys : keys[k] = b[i].key
          /\ b[i].count = Cardinality({k \in DOMAIN keys : keys[k] = b[i].key})
    /\ \A i, j \in DOMAIN b :
          i < j =>
             /\ b[i].key # b[j].key
             /\ b[i].count >= b[j].count
             /\ b[i].count = b[j].count =>
                   FirstSeen(keys, b[i].key) < FirstSeen(keys, b[j].key)

\* C23: both breakdowns list at most five pairs, larger counts first and
\* equal counts in first-seen order, each count the number of records with
\* the key; non-conforming records without a type are in no bucket.
C23_BreakdownsAreTopFive ==
    [][ StatsSet =>
          LET typed == SelectSeq(store, LAMBDA c :
                          /\ c.nonConforming
                          /\ "nonConformanceType" \in DOMAIN c
                          /\ c.nonConformanceType # "")
          IN  /\ IsBreakdown(stats'.nonConformanceTypes,
                             [k \in DOMAIN typed |-> typed[k].nonConformanceType])
              /\ IsBreakdown(stats'.materialTypes,
                             [k \in DOMAIN store |-> store[k].materialType])
      ]_vars

\* ---- the cloud sink, export dates, pending entries, deletion
\* C24: the upload instructions of the cloud sink are presented only after
\* a device export that succeeded.
C24_InstructionsOnlyAfterSuccess ==
    (ended.sink = "device" /\ ended.cloud /\ Includes(ended.alerts, "cloudInstructions"))
        => ended.outcome = "success"

\* C25: a stored record has an exportDate exactly when it is exported.
C25_ExportDateIffExported ==
    \A k \in DOMAIN store :
        store[k].exported <=> store[k].exportDate # NoDate

\* C26: every pending_sync entry names a stored record, and no two
\* entries name the same record.
C26_PendingNamesStoredRecords ==
    /\ \A k \in DOMAIN pending : pending[k].id \in Ids(store)
    /\ \A j, k \in DOMAIN pending : pending[j].id = pending[k].id => j = k

\* C27: the Delete button writes the persisted collection without the
\* record of its dialog and with every other persisted record as it was.
C27_DeleteRemovesOneRecord ==
    [][ (dialogs # <<>> /\ alert' = "deleted") =>
          store' = SelectSeq(store, LAMBDA c : c.id # Head(dialogs).cargo)
      ]_vars

\* the photos of a record that have a payload
WithPayload(cargo) == { j \in DOMAIN cargo.photos : cargo.photos[j] # NoPayload }

\* C28: when the photo directory of a record was made in an organized
\* export, at most one of its photos that have a payload, the one whose
\* write failed, is missing from the files written.
C28_OnlyFailingPhotoSkipped ==
    [][ LET r == runs.device
            r2 == runs'.device
            cargo == Scope(r)[r.i + 1]
        IN  (/\ r.pc = "records"
             /\ r2.pc = "records"
             /\ r2.i = r.i + 1
             /\ <<"photos/", cargo.invoiceNumber>> \in r2.written) =>
               Cardinality({ j \in WithPayload(cargo) :
                               <<"photos/", cargo.invoiceNumber, j>>
                                  \notin r2.written }) <= 1 ]_vars

\* C29: an email run composes at most one email.
C29_OneComposePerRun ==
    (RunEnded /\ ended.sink = "email") => ended.composed <= 1

\* C30: when the records of a device run are written, the output root
\* holds as many report files as there are records in scope.
C30_OneReportPerRecord ==
    LET r == runs.device IN
    r.pc = "share" =>
        Cardinality({ ReportFile(r, Scope(r)[k]) : k \in DOMAIN Scope(r) }
                    \cap r.written) = Len(Scope(r))
=============================================================================
